---- MODULE Spec2Model ----
(***************************************************************************)
(* A model of pdf_manager: the PDF document model and its classifier       *)
(* (core/core.py), the filesystem scanner and the path normalisation       *)
(* (core/utils.py), the budget report (budget/__init__.py) and the         *)
(* concatenation engine (concat/__init__.py).                              *)
(*                                                                         *)
(* Strings are sequences of tokens (<<"c", ".pdf">> is 'c.pdf'), so that   *)
(* substring tests, suffix tests and joins are computed, not assumed.      *)
(* A raised exception is an outcome of the call: the string naming it.     *)
(***************************************************************************)
EXTENDS Integers, Sequences, FiniteSets, TLC

VARIABLES
    height,      \* PDF.height of the document under classification
    width,       \* PDF.width of the document under classification
    typeResult,  \* what PDF.get_type() gave: a PdfTypes member or an exception
    files,       \* the filesystem: absolute path of each file |-> its content
    listing,     \* each directory |-> its file names, in the order scandir gives
    op,          \* the operation that ran last: none, scan, budget, concat
    outcome,     \* how it ended: none, returned, or the exception it raised
    fileList,    \* what get_file_list returned
    pdfs,        \* what get_pdfs returned (the local 'pdfs' of the operation)
    success,     \* concat: the documents added to the output
    errors,      \* budget and concat: the documents of another type than A4
    df,          \* budget: the rows of the report
    output,      \* concat: the output path of the last run
    history,     \* concat: what the output file held after each run
    args,        \* the arguments of the operation that ran last
    argv         \* the command line main() was started with (sys.argv[1:])

typeVars == <<height, width, typeResult>>

fsVars == <<files, listing>>

opVars == <<op, outcome, fileList, pdfs, success, errors, df, output, history, args>>

vars == <<height, width, typeResult, files, listing, op, outcome, fileList, pdfs,
          success, errors, df, output, history, args, argv>>

-----------------------------------------------------------------------------
(* Bounds of the model.                                                    *)

\* Largest height / width (cm) of a classified document.
MaxCm == 35

\* Most files in the scanned tree before an operation runs.
MaxFiles == 2

\* Most pages of a file in the scanned tree.
MaxPages == 2

-----------------------------------------------------------------------------
(* core/core.py: PdfTypes and PDF.get_type                                 *)

\* The members of the PdfTypes enumeration.
PdfTypes == {"A4", "A4_inverted", "slide", "unknown"}

\* height = width = -1 marks a document that could not be read.
Unreadable == -1

\* Attribute lookup on the PdfTypes class: a member, or AttributeError.
PdfTypesAttr(name) ==
    IF name \in PdfTypes THEN name ELSE "AttributeError"

\* is_A4 with the lower height bound written strict.
is_A4_strict(h, w) == 28 < h /\ h <= 30 /\ 20 <= w /\ w <= 22

is_A4(h, w) == 28 <= h /\ h <= 30 /\ 20 <= w /\ w <= 22

\* is_A4_inverted reaching down to the widths of a slide.
is_A4_inverted_wide(h, w) == 24 <= w /\ w <= 30 /\ 20 <= h /\ h <= 22

is_A4_inverted(h, w) == 28 <= w /\ w <= 30 /\ 20 <= h /\ h <= 22

\* is_slide without the wide (32..34 cm) format.
is_slide_narrow(h, w) == 24 <= w /\ w <= 26 /\ 18 <= h /\ h <= 20

is_slide(h, w) ==
    \/ (24 <= w /\ w <= 26 /\ 18 <= h /\ h <= 20)
    \/ (32 <= w /\ w <= 34 /\ 18 <= h /\ h <= 20)

\* PDF.get_type: the A4-inverted branch reads the attribute 'A4_invertedç'.
get_type(h, w) ==
    IF is_A4(h, w) THEN PdfTypesAttr("A4")
    ELSE IF is_A4_inverted(h, w) THEN PdfTypesAttr("A4_invertedç")
    ELSE IF is_slide(h, w) THEN PdfTypesAttr("slide")
    ELSE PdfTypesAttr("unknown")

-----------------------------------------------------------------------------
(* Strings and paths.  A string is a sequence of tokens; a path is the     *)
(* sequence of its components' names; as_posix joins them with '/'.        *)

Slash == <<"/">>

PdfSuffix == <<".pdf">>

\* s.endswith(suffix)
EndsWith(s, suffix) ==
    /\ Len(s) >= Len(suffix)
    /\ SubSeq(s, Len(s) - Len(suffix) + 1, Len(s)) = suffix

\* sub in s
Contains(s, sub) ==
    \E i \in 0..(Len(s) - Len(sub)) : SubSeq(s, i + 1, i + Len(sub)) = sub

RECURSIVE Join(_)
\* The components of a relative path joined with '/': 'a/b.pdf'.
Join(parts) ==
    IF parts = << >> THEN << >>
    ELSE IF Len(parts) = 1 THEN parts[1]
    ELSE parts[1] \o Slash \o Join(Tail(parts))

\* Path.as_posix() of an absolute path: '/home/test/a/b.pdf'.
as_posix(path) == Slash \o Join(path)

\* os.path.basename of a path: its last component.
basename(path) == path[Len(path)]

\* Whether path lies under root (root's components are a prefix of path's).
IsUnder(path, root) ==
    Len(path) >= Len(root) /\ SubSeq(path, 1, Len(root)) = root

\* Path.relative_to(root): the components after root's, or ValueError.
relative_to(path, root) ==
    IF IsUnder(path, root) THEN SubSeq(path, Len(root) + 1, Len(path))
    ELSE "ValueError"

\* The code point order of the tokens' first characters ('.' < '/' < '_' < letters).
TokenRank(t) ==
    CASE t = ".pdf" -> 1
      [] t = ".txt" -> 1
      [] t = "/" -> 2
      [] t = "a" -> 10
      [] t = "b" -> 11
      [] t = "c" -> 12
      [] t = "compact_pdf" -> 13
      [] t = "d" -> 14
      [] t = "home" -> 15
      [] t = "n" -> 16
      [] t = "out" -> 17
      [] t = "test" -> 18
      [] OTHER -> 19

RECURSIVE StrLess(_, _)
\* s < t for two strings, as Python compares them (lexicographically).
StrLess(s, t) ==
    IF t = << >> THEN FALSE
    ELSE IF s = << >> THEN TRUE
    ELSE IF s[1] = t[1] THEN StrLess(Tail(s), Tail(t))
    ELSE TokenRank(s[1]) < TokenRank(t[1])

-----------------------------------------------------------------------------
(* PDF files and the PDF object built from one (core/core.py).             *)

\* The media boxes of the pages of the scanned files, [b, a] = (width,
\* height) in points: A4 portrait, A4 landscape and a 4:3 slide.
PageSizes == { [b |-> 595, a |-> 842], [b |-> 842, a |-> 595], [b |-> 720, a |-> 540] }

\* int(float(x) * 2.54 / 72): points to centimetres, truncated.
CmOf(x) == (x * 254) \div 7200

\* The sequences that hold each element of S once: the orders S may come in.
Perms(S) ==
    { s \in [1..Cardinality(S) -> S] : \A i, j \in DOMAIN s : i # j => s[i] # s[j] }

\* The one element of a singleton set (set.pop()).
Pop(S) == CHOOSE x \in S : TRUE

\* PDF(filepath): update_pages reads the page count and every page's media box.
\* On a file PyPDF2 cannot read the handler of PdfReadError starts with
\* print(Fore.RED + self.filepath, ...), a str plus a Path, which raises
\* TypeError before pages, height and width are assigned; pages of different
\* heights or widths (or no page at all) raise PdfError.
PDF(filepath, content) ==
    IF ~content.readable
    THEN [filepath |-> filepath, pages |-> 0, height |-> Unreadable,
          width |-> Unreadable, raised |-> "TypeError"]
    ELSE LET heights == { CmOf(content.pages[i].a) : i \in DOMAIN content.pages }
             widths  == { CmOf(content.pages[i].b) : i \in DOMAIN content.pages }
         IN  IF Cardinality(heights) # 1 \/ Cardinality(widths) # 1
             THEN [filepath |-> filepath, pages |-> Len(content.pages),
                   height |-> Unreadable, width |-> Unreadable, raised |-> "PdfError"]
             ELSE [filepath |-> filepath, pages |-> Len(content.pages),
                   height |-> Pop(heights), width |-> Pop(widths), raised |-> "none"]

\* pdf.get_type() of a PDF object.
TypeOf(pdf) == get_type(pdf.height, pdf.width)

-----------------------------------------------------------------------------
(* The filesystem scanner (core/utils.py).                                 *)

\* The scanned root, Path(path).absolute().
Root == << <<"home">>, <<"test">> >>

\* The one subdirectory of the root.
SubDir == Root \o << <<"a">> >>

\* The directories rglob visits, in its order: a directory before its
\* subdirectories.
Directories == << Root, SubDir >>

\* The paths of directory d's files, in scandir's order.
FilesIn(ls, d) == [ i \in 1..Len(ls[d]) |-> d \o << ls[d][i] >> ]

RECURSIVE Walk(_, _)
\* The files of the directories ds, directory by directory.
Walk(ls, ds) ==
    IF ds = << >> THEN << >>
    ELSE (IF ds[1] \in DOMAIN ls THEN FilesIn(ls, ds[1]) ELSE << >>)
         \o Walk(ls, Tail(ds))

\* current_path.rglob('*.pdf'): every file below the root whose name ends in
\* '.pdf', each directory's files in the order the filesystem lists them.
IsPdfName(path) == EndsWith(basename(path), PdfSuffix)

rglob(ls) == SelectSeq(Walk(ls, Directories), IsPdfName)

\* pattern.search(path.as_posix()) is not None, for a literal pattern.
Matches(exclude, path) == Contains(as_posix(path), exclude)

\* get_file_list(path, exclude): the paths rglob yields, without those the
\* exclusion pattern matches ('not exclude' holds of None and of '').
get_file_list(ls, exclude) ==
    IF exclude = << >> THEN rglob(ls)
    ELSE LET Keep(path) == ~Matches(exclude, path)
         IN  SelectSeq(rglob(ls), Keep)

\* The default output name, which get_pdfs leaves out of every scan.
CompactPdf == <<"compact_pdf", ".pdf">>

\* [PDF(f) for f in filenames]: the first constructor that raises ends the
\* comprehension.
Construct(fs, filenames) == [ i \in 1..Len(filenames) |-> PDF(filenames[i], fs[filenames[i]]) ]

\* The constructors of the comprehension that raise.
Raised(objs) == { i \in 1..Len(objs) : objs[i].raised # "none" }

\* The first of them: the exception that leaves the comprehension.
FirstRaised(objs) == objs[CHOOSE i \in Raised(objs) : \A j \in Raised(objs) : i <= j].raised

\* 'compact_pdf.pdf' not in x.as_posix()
NotOutput(path) == ~Contains(as_posix(path), CompactPdf)

\* The files get_pdfs builds a PDF object for.
filenames(ls, exclude) == SelectSeq(get_file_list(ls, exclude), NotOutput)

\* get_pdfs(path, exclude): [raised |-> exception or none, pdfs |-> the list].
get_pdfs(fs, ls, exclude) ==
    LET objs == Construct(fs, filenames(ls, exclude))
    IN  IF Raised(objs) # {}
        THEN [raised |-> FirstRaised(objs), pdfs |-> << >>]
        ELSE [raised |-> "none", pdfs |-> objs]

-----------------------------------------------------------------------------
(* The classifier on its own: a document of any dimensions is classified.  *)

Dims == Unreadable .. MaxCm

\* No operation has run and the scanned tree is empty.
Idle ==
    /\ files = << >>
    /\ listing = << >>
    /\ op = "none"
    /\ outcome = "none"
    /\ fileList = << >>
    /\ pdfs = << >>
    /\ success = << >>
    /\ errors = << >>
    /\ df = << >>
    /\ output = << >>
    /\ history = << >>
    /\ args = << >>
    /\ argv = << >>

InitType ==
    /\ height \in Dims
    /\ width \in Dims
    /\ typeResult = "none"
    /\ Idle

\* p.get_type() on the document (height, width).
GetType ==
    /\ typeResult = "none"
    /\ typeResult' = get_type(height, width)
    /\ UNCHANGED <<height, width, fsVars, opVars, argv>>

NextType == GetType

SpecType == InitType /\ [][NextType]_vars

-----------------------------------------------------------------------------
(* The loop budget and concat share: classify each scanned document.       *)

IsA4Doc(pdf) == TypeOf(pdf) = "A4"

NotA4Doc(pdf) == TypeOf(pdf) # "A4"

\* The exception the first failing pdf.get_type() of the loop raises, or none.
LoopRaises(scanned) ==
    IF \E i \in DOMAIN scanned : TypeOf(scanned[i]) = "AttributeError"
    THEN "AttributeError" ELSE "none"

RECURSIVE SumOf(_, _)
\* The sum of field f over the rows (or documents) of a sequence.
SumOf(rows, f) ==
    IF rows = << >> THEN 0 ELSE rows[1][f] + SumOf(Tail(rows), f)

-----------------------------------------------------------------------------
(* The budget report (budget/__init__.py) and make_names_relative.         *)

\* The row df.loc[pdf.filepath] = (pdf.pages, pdf.pages * price_per_sheet);
\* prices are in hundredths.
RowOf(pdf, price_per_sheet) ==
    [label |-> pdf.filepath, pages |-> pdf.pages, price |-> pdf.pages * price_per_sheet]

\* make_names_relative labelling every row like a single one: '/' + basename.
make_names_basename(rows, root) ==
    [ i \in 1..Len(rows) |-> [rows[i] EXCEPT !.label = Slash \o basename(@)] ]

\* make_names_relative(df, root) on the index of the report: one row is
\* labelled '/' + basename, several rows by their paths relative to root.
make_names_relative(rows, root) ==
    IF Len(rows) = 1
    THEN [ i \in 1..Len(rows) |-> [rows[i] EXCEPT !.label = Slash \o basename(@)] ]
    ELSE [ i \in 1..Len(rows) |-> [rows[i] EXCEPT !.label = Join(relative_to(@, root))] ]

\* df.sort_values(['pages'], ascending=False): the results it may give.
\* sort_values runs with its default kind, quicksort, which numpy documents
\* as not stable: rows of equal pages may come out in any order.
sort_values(rows) ==
    { [ i \in 1..Len(rows) |-> rows[perm[i]] ] : perm \in
        { q \in Perms(1..Len(rows)) :
            \A i \in 1..(Len(rows) - 1) : rows[q[i]].pages >= rows[q[i + 1]].pages } }

\* The row df.loc['Total'] = sum of pages, sum of prices.
TotalRow(rows) ==
    [label |-> <<"Total">>, pages |-> SumOf(rows, "pages"), price |-> SumOf(rows, "price")]

\* The rows of the A4 documents, in scan order.
BudgetRows(scanned, price_per_sheet) ==
    LET a4 == SelectSeq(scanned, IsA4Doc)
    IN  [ i \in 1..Len(a4) |-> RowOf(a4[i], price_per_sheet) ]

-----------------------------------------------------------------------------
(* The concatenation engine (concat/__init__.py) and safe_delete.          *)

\* s without its elements equal to x.
Without(s, x) == LET Other(y) == y # x IN SelectSeq(s, Other)

\* s with x put after its first k elements.
InsertAt(s, k, x) == SubSeq(s, 1, k) \o << x >> \o SubSeq(s, k + 1, Len(s))

\* The function f without x in its domain.
Drop(f, x) == [ y \in DOMAIN f \ { x } |-> f[y] ]

\* The directory of a path.
dirname(path) == SubSeq(path, 1, Len(path) - 1)

\* safe_delete that removes nothing.
safe_delete_nothing(fs, ls, filename) == [files |-> fs, listing |-> ls]

\* safe_delete(filename): os.remove, a missing file being ignored.
safe_delete(fs, ls, filename) ==
    IF filename \in DOMAIN fs
    THEN [files |-> Drop(fs, filename),
          listing |-> [ls EXCEPT ![dirname(filename)] = Without(@, basename(filename))]]
    ELSE [files |-> fs, listing |-> ls]

\* The pages one A4 document adds to the output: its own, then a blank page
\* (of the size of the last one) when their number is odd.
PagesAdded(fs, pdf) ==
    LET own == SubSeq(fs[pdf.filepath].pages, 1, pdf.pages)
    IN  IF pdf.pages % 2 # 0 THEN Append(own, own[Len(own)]) ELSE own

RECURSIVE OutputPages(_, _)
\* The pages of the PdfFileWriter after the loop over the A4 documents.
OutputPages(fs, added) ==
    IF added = << >> THEN << >>
    ELSE PagesAdded(fs, added[1]) \o OutputPages(fs, Tail(added))

\* open(output, 'wb') and output_pdf.write(f): the file holds the pages; a
\* new file enters its directory's listing at a place the filesystem picks.
WriteOutput(fs, ls, path, pages, k) ==
    [files |-> (path :> [readable |-> TRUE, pages |-> pages]) @@ fs,
     listing |-> IF path \in DOMAIN fs THEN ls
                 ELSE [ls EXCEPT ![dirname(path)] = InsertAt(@, k, basename(path))]]

-----------------------------------------------------------------------------
(* The scanned tree.                                                       *)

\* The files a tree may hold: c.pdf, d.pdf and n.txt in the root, b.pdf in
\* the subdirectory a.
CandidatePaths ==
    { Root \o << <<"c", ".pdf">> >>, Root \o << <<"d", ".pdf">> >>,
      Root \o << <<"n", ".txt">> >>, SubDir \o << <<"b", ".pdf">> >> }

\* A file PyPDF2 cannot read.
Garbage == [readable |-> FALSE, pages |-> << >>]

\* The pages of a readable file: all of one size, or the last of another.
PageSeqs ==
    { [ i \in 1..n |-> IF i < n THEN s ELSE t ] : s \in PageSizes, t \in PageSizes,
                                                 n \in 0..MaxPages }

Contents == { Garbage } \cup { [readable |-> TRUE, pages |-> ps] : ps \in PageSeqs }

NamesIn(paths, d) ==
    { basename(q) : q \in { r \in paths : SubSeq(r, 1, Len(r) - 1) = d } }

\* The exclusion patterns of a run: none, '/a/' and 'c.pdf'.
Excludes == { << >>, <<"/", "a", "/">>, <<"c", ".pdf">> }

\* A tree of at most MaxFiles files, each directory listing its files in
\* some order; no operation has run.
TreeAtStart ==
    /\ \E paths \in SUBSET CandidatePaths :
          /\ Cardinality(paths) \in 1..MaxFiles
          /\ files \in { f \in [paths -> Contents] :
                           \A q \in paths : ~IsPdfName(q) => f[q] = Garbage }
          /\ \E pr \in Perms(NamesIn(paths, Root)), ps \in Perms(NamesIn(paths, SubDir)) :
                listing = (Root :> pr) @@ (SubDir :> ps)
    /\ op = "none"
    /\ outcome = "none"
    /\ fileList = << >>
    /\ pdfs = << >>
    /\ success = << >>
    /\ errors = << >>
    /\ df = << >>
    /\ output = << >>
    /\ history = << >>
    /\ args = << >>
    /\ height = Unreadable
    /\ width = Unreadable
    /\ typeResult = "none"

\* The tree before an operation is called directly (no command line).
InitTree == TreeAtStart /\ argv = << >>

\* get_file_list(path=root, exclude=exclude)
Scan(exclude) ==
    /\ op = "none"
    /\ op' = "scan"
    /\ outcome' = "returned"
    /\ args' = [exclude |-> exclude]
    /\ fileList' = get_file_list(listing, exclude)
    /\ UNCHANGED <<typeVars, fsVars, pdfs, success, errors, df, output, history, argv>>

\* The prices per sheet of a run, in hundredths (0.03 is the default).
Prices == { 3, 5 }

\* _create_budget(path=root, price_per_sheet, exclude): scan, price the A4
\* documents, relabel, sort, append the Total row.
Budget(price_per_sheet, exclude) ==
    /\ op \in {"none", "concat"}
    /\ op' = "budget"
    /\ args' = [exclude |-> exclude, price |-> price_per_sheet]
    /\ \E got \in { get_pdfs(files, listing, exclude) } :
       \E raised \in { IF got.raised # "none" THEN got.raised ELSE LoopRaises(got.pdfs) } :
          /\ pdfs' = got.pdfs
          /\ IF raised # "none"
             THEN /\ outcome' = raised
                  /\ df' = << >>
                  /\ errors' = << >>
             ELSE /\ outcome' = "returned"
                  /\ errors' = SelectSeq(got.pdfs, NotA4Doc)
                  /\ \E sorted \in sort_values(
                           make_names_relative(BudgetRows(got.pdfs, price_per_sheet), Root)) :
                        df' = Append(sorted, TotalRow(sorted))
    /\ UNCHANGED <<typeVars, fsVars, fileList, success, output, history, argv>>

NextBudget == \E price \in Prices, exclude \in Excludes : Budget(price, exclude)

SpecBudget == InitTree /\ [][NextBudget]_vars

\* The output names of a run: the default, another name, and the name of a
\* document of the tree.
OutputNames == { CompactPdf, <<"out", ".pdf">>, <<"c", ".pdf">> }

\* What the file at path holds: [present, pages].
FileState(fs, path) ==
    IF path \in DOMAIN fs THEN [present |-> TRUE, pages |-> fs[path].pages]
    ELSE [present |-> FALSE, pages |-> << >>]

\* concat_pdfs(path=root, output=root/name, exclude): delete the old output,
\* scan, add the pages of the A4 documents, write the output.  It runs twice
\* in a row, the second run repeating the command of the first.
Concat(name, exclude) ==
    /\ op \in {"none", "concat"}
    /\ Len(history) < 2
    /\ op = "concat" => args = [exclude |-> exclude, output |-> Root \o << name >>]
    /\ op' = "concat"
    /\ args' = [exclude |-> exclude, output |-> Root \o << name >>]
    /\ output' = Root \o << name >>
    /\ \E deleted \in { safe_delete(files, listing, Root \o << name >>) } :
       \E got \in { get_pdfs(deleted.files, deleted.listing, exclude) } :
       \E raised \in { IF got.raised # "none" THEN got.raised ELSE LoopRaises(got.pdfs) } :
          /\ pdfs' = got.pdfs
          /\ IF raised # "none"
             THEN /\ outcome' = raised
                  /\ success' = << >>
                  /\ errors' = << >>
                  /\ files' = deleted.files
                  /\ listing' = deleted.listing
             ELSE /\ outcome' = "returned"
                  /\ success' = SelectSeq(got.pdfs, IsA4Doc)
                  /\ errors' = SelectSeq(got.pdfs, NotA4Doc)
                  /\ \E pages \in { OutputPages(deleted.files, SelectSeq(got.pdfs, IsA4Doc)) } :
                     \E k \in 0..Len(deleted.listing[Root]) :
                     \E written \in { WriteOutput(deleted.files, deleted.listing,
                                                  Root \o << name >>, pages, k) } :
                        /\ files' = written.files
                        /\ listing' = written.listing
    /\ history' = Append(history, [output |-> output', exclude |-> exclude,
                                   file |-> FileState(files', output')])
    /\ UNCHANGED <<typeVars, fileList, df, argv>>

NextConcat == \E name \in OutputNames, exclude \in Excludes : Concat(name, exclude)

SpecConcat == InitTree /\ [][NextConcat]_vars

NextScan == \E exclude \in Excludes : Scan(exclude)

SpecScan == InitTree /\ [][NextScan]_vars

\* The program: one of its operations runs on the tree.
Next == NextScan \/ NextBudget \/ NextConcat

Spec == InitTree /\ [][Next]_vars

-----------------------------------------------------------------------------
(* The command line (core/main.py).  An argument is a string; --path is    *)
(* left at its default './', the scanned root.                             *)

\* The subcommands add_subparsers knows.
Commands == { <<"budget">>, <<"concat">> }

\* The strings float() accepts among the arguments, and their value in
\* hundredths.
IsFloat(arg) == arg \in { <<"0.03">>, <<"0.05">> }

FloatOf(arg) == IF arg = <<"0.05">> THEN 5 ELSE 3

\* parser.error(): argparse prints the usage and exits with status 2.
UsageError == [exit |-> 2, command |-> << >>, exclude |-> << >>, price |-> 3,
               output |-> CompactPdf, no_open |-> TRUE]

\* The namespace before any argument is read: the defaults of the options.
Defaults == [exit |-> 0, command |-> << >>, exclude |-> << >>, price |-> 3,
             output |-> CompactPdf, no_open |-> TRUE]

RECURSIVE ParseSub(_, _)
\* The subparser of opt.command on the arguments after the subcommand.
ParseSub(rest, opt) ==
    IF rest = << >> THEN opt
    ELSE IF opt.command = <<"budget">> /\ rest[1] = <<"--price">>
    THEN IF Len(rest) >= 2 /\ IsFloat(rest[2])
         THEN ParseSub(SubSeq(rest, 3, Len(rest)), [opt EXCEPT !.price = FloatOf(rest[2])])
         ELSE UsageError
    ELSE IF opt.command = <<"concat">> /\ rest[1] = <<"--output">>
    THEN IF Len(rest) >= 2
         THEN ParseSub(SubSeq(rest, 3, Len(rest)), [opt EXCEPT !.output = rest[2]])
         ELSE UsageError
    ELSE IF opt.command = <<"concat">> /\ rest[1] = <<"--no_open">>
    THEN ParseSub(Tail(rest), [opt EXCEPT !.no_open = FALSE])
    ELSE UsageError

RECURSIVE ParseMain(_, _, _)
\* The main parser: --exclude options, then the subcommand, which must be
\* there when subparsers.required is set.
ParseMain(rest, opt, required) ==
    IF rest = << >> THEN (IF required THEN UsageError ELSE opt)
    ELSE IF rest[1] = <<"--exclude">>
    THEN IF Len(rest) >= 2
         THEN ParseMain(SubSeq(rest, 3, Len(rest)), [opt EXCEPT !.exclude = rest[2]], required)
         ELSE UsageError
    ELSE IF rest[1] \in Commands
    THEN ParseSub(Tail(rest), [opt EXCEPT !.command = rest[1]])
    ELSE UsageError

\* 'output' in opt and not opt.output.endswith('.pdf'): '.pdf' is appended.
WithPdfSuffix(opt) ==
    IF opt.exit = 0 /\ opt.command = <<"concat">> /\ ~EndsWith(opt.output, PdfSuffix)
    THEN [opt EXCEPT !.output = @ \o PdfSuffix]
    ELSE opt

\* _parse_args with subparsers.required left unset.
parse_args_optional(line) == WithPdfSuffix(ParseMain(line, Defaults, FALSE))

\* _parse_args(line): the namespace, or the exit of a usage error.
parse_args(line) == WithPdfSuffix(ParseMain(line, Defaults, TRUE))

\* The command lines main() is started with.
CommandLines ==
    { << >>,
      << <<"--exclude">>, <<"c", ".pdf">> >>,
      << <<"--price">>, <<"0.05">> >>,
      << <<"print">> >>,
      << <<"budget">> >>,
      << <<"budget">>, <<"--price">>, <<"0.05">> >>,
      << <<"budget">>, <<"--output">>, <<"out">> >>,
      << <<"--exclude">>, <<"/", "a", "/">>, <<"budget">> >>,
      << <<"concat">> >>,
      << <<"concat">>, <<"--output">>, <<"out">> >>,
      << <<"concat">>, <<"--no_open">>, <<"--output">>, <<"out", ".pdf">> >> }

InitMain == TreeAtStart /\ argv \in CommandLines

\* The process ends with SystemExit(status) before any operation has run.
Exit(status) ==
    /\ op' = "exit"
    /\ outcome' = "SystemExit"
    /\ args' = [status |-> status]
    /\ UNCHANGED <<typeVars, fsVars, fileList, pdfs, success, errors, df, output,
                   history, argv>>

\* main(): parse the command line, then run the subcommand.
Main ==
    /\ op = "none"
    /\ \E opt \in { parse_args(argv) } :
         IF opt.exit # 0 THEN Exit(opt.exit)
         ELSE IF opt.command = <<"budget">> THEN Budget(opt.price, opt.exclude)
         ELSE IF opt.command = <<"concat">> THEN Concat(opt.output, opt.exclude)
         ELSE Exit(1)

NextMain == Main

SpecMain == InitMain /\ [][NextMain]_vars

-----------------------------------------------------------------------------
(* Claims about the classifier, checked under SpecType.                    *)

InA4Range == height \in 28..30 /\ width \in 20..22

InA4InvertedRange == width \in 28..30 /\ height \in 20..22

InSlideRange == height \in 18..20 /\ (width \in 24..26 \/ width \in 32..34)

\* C1: once get_type has run on a document whose height is in 28..30 cm and
\* whose width is in 20..22 cm, its result is the A4 type (no exception).
C1_A4Classified ==
    (typeResult # "none" /\ InA4Range) => typeResult = "A4"

C1_Witness == typeResult = "A4" /\ height = 28 /\ width = 22

\* C2: once get_type has run on a document whose width is in 28..30 cm and
\* whose height is in 20..22 cm, its result is the A4_inverted type, returned
\* as a value (no exception).
C2_A4InvertedReturned ==
    (typeResult # "none" /\ InA4InvertedRange) => typeResult = "A4_inverted"

\* C3: once get_type has run, a document in the slide ranges (height 18..20,
\* width 24..26 or 32..34) is a slide, and a document outside the A4, the
\* A4-inverted and the slide ranges is unknown.
C3_SlideAndUnknown ==
    typeResult # "none" =>
        /\ InSlideRange => typeResult = "slide"
        /\ (~InA4Range /\ ~InA4InvertedRange /\ ~InSlideRange)
               => typeResult = "unknown"

C3_Witness == typeResult = "slide" /\ height = 19 /\ width = 33

\* The scan of the operation raised while it built the PDF objects.
ScanRaised == outcome \in { "PdfError", "TypeError" }

-----------------------------------------------------------------------------
(* Claims about concat, checked under SpecConcat.                          *)

\* The scanned documents whose dimensions are A4 / are not.
A4Dims(pdf) == pdf.height \in 28..30 /\ pdf.width \in 20..22

OtherDims(pdf) == ~A4Dims(pdf)

A4Scanned == { i \in DOMAIN pdfs : A4Dims(pdfs[i]) }

RECURSIVE PaddedPages(_)
\* The pages of the A4 documents of a list, one more for each odd count.
PaddedPages(docs) ==
    IF docs = << >> THEN 0
    ELSE (IF A4Dims(docs[1]) THEN docs[1].pages + (docs[1].pages % 2) ELSE 0)
         + PaddedPages(Tail(docs))

\* C4: after concat over the scanned documents, the output holds the pages of
\* the A4 documents plus one blank page for each A4 document of odd page
\* count, and nothing of the other documents.
C4_OutputPageCount ==
    (op = "concat" /\ ~ScanRaised) =>
        /\ output \in DOMAIN files
        /\ Len(files[output].pages) = PaddedPages(pdfs)

\* C5: concat returns (succeeded, failed): succeeded is the A4 documents of
\* the scan, failed the documents of every other type, each in scan order.
C5_Partition ==
    (op = "concat" /\ ~ScanRaised) =>
        /\ outcome = "returned"
        /\ success = SelectSeq(pdfs, A4Dims)
        /\ errors = SelectSeq(pdfs, OtherDims)

\* C10: concat run twice in a row with the same root, output and exclusion
\* leaves the same output file both times; a run never scans its own output
\* path, and a missing previous output raises nothing.
C10_SameOutputTwice ==
    /\ op = "concat" =>
          /\ outcome # "FileNotFoundError"
          /\ \A i \in DOMAIN pdfs : pdfs[i].filepath # output
    /\ (Len(history) = 2 /\ history[1].output = history[2].output
          /\ history[1].exclude = history[2].exclude)
          => history[2].file = history[1].file

C10_Witness ==
    /\ Len(history) = 2
    /\ output = Root \o << <<"out", ".pdf">> >>
    /\ outcome = "returned"
    /\ history[1].file.present
    /\ Len(history[2].file.pages) = 4

-----------------------------------------------------------------------------
(* Claims about the budget report, checked under SpecBudget.               *)

\* The document rows of the report: all but the last.
DocRows == IF df = << >> THEN << >> ELSE SubSeq(df, 1, Len(df) - 1)

\* The scanned document a row stands for.
DocOfRow(row) ==
    CHOOSE i \in DOMAIN pdfs : EndsWith(row.label, basename(pdfs[i].filepath))

\* C6: the report has one row for each A4 document and a Total row, no row
\* for any other document, which is in errors; a row's price is its pages
\* times the price per sheet, and Total holds the sums of pages and prices.
C6_BudgetReport ==
    (op = "budget" /\ ~ScanRaised) =>
        /\ outcome = "returned"
        /\ Len(df) = Cardinality(A4Scanned) + 1
        /\ errors = SelectSeq(pdfs, OtherDims)
        /\ \A r \in DOMAIN DocRows :
              /\ \E i \in A4Scanned : EndsWith(DocRows[r].label, basename(pdfs[i].filepath))
              /\ DocRows[r].price = DocRows[r].pages * args.price
        /\ df[Len(df)].pages = SumOf(DocRows, "pages")
        /\ df[Len(df)].price = SumOf(DocRows, "price")

\* C7: the document rows are in descending order of pages, rows of equal
\* pages in scan order, and the Total row is last.
C7_SortedStable ==
    (op = "budget" /\ outcome = "returned") =>
        /\ df[Len(df)].label = <<"Total">>
        /\ \A r \in DOMAIN DocRows : DocRows[r].label # <<"Total">>
        /\ \A r, q \in DOMAIN DocRows : r < q =>
              /\ DocRows[r].pages >= DocRows[q].pages
              /\ DocRows[r].pages = DocRows[q].pages
                    => DocOfRow(DocRows[r]) < DocOfRow(DocRows[q])

\* The path of a document below the root, 'a/b.pdf'.
RelativeName(pdf) == Join(SubSeq(pdf.filepath, Len(Root) + 1, Len(pdf.filepath)))

\* C8 as stated: with two or more document rows each label is '/' followed by
\* the path relative to the root; with one, '/' followed by the base name.
C8_SlashRelativeLabels ==
    (op = "budget" /\ outcome = "returned") =>
        { DocRows[r].label : r \in DOMAIN DocRows } =
            { IF Cardinality(A4Scanned) >= 2 THEN Slash \o RelativeName(pdfs[i])
              ELSE Slash \o basename(pdfs[i].filepath) : i \in A4Scanned }

\* C8 amended: with two or more document rows each label is the path relative
\* to the root, with forward slashes and no leading '/'; with one, it is '/'
\* followed by the base name.
C8_RelativeLabels ==
    (op = "budget" /\ outcome = "returned") =>
        { DocRows[r].label : r \in DOMAIN DocRows } =
            { IF Cardinality(A4Scanned) >= 2 THEN RelativeName(pdfs[i])
              ELSE Slash \o basename(pdfs[i].filepath) : i \in A4Scanned }

C8_Witness ==
    /\ op = "budget"
    /\ outcome = "returned"
    /\ { DocRows[r].label : r \in DOMAIN DocRows } = { <<"a", "/", "b", ".pdf">>, <<"c", ".pdf">> }

-----------------------------------------------------------------------------
(* Claims about the scanner, checked under SpecScan.                       *)

\* C9: get_file_list returns the paths in lexicographic order, with and
\* without an exclusion pattern.
C9_FileListSorted ==
    op = "scan" =>
        \A i, j \in DOMAIN fileList :
            i < j => StrLess(as_posix(fileList[i]), as_posix(fileList[j]))

-----------------------------------------------------------------------------
(* Claims about the command line, checked under SpecMain.                  *)

\* No argument of the command line is a subcommand.
NoSubcommand == \A i \in DOMAIN argv : argv[i] \notin Commands

\* C11: started without a subcommand, main() ends with exit status 2 and has
\* run neither budget nor concat.
C11_NoSubcommandExits2 ==
    (op # "none" /\ NoSubcommand) =>
        /\ op = "exit"
        /\ outcome = "SystemExit"
        /\ args.status = 2
        /\ pdfs = << >> /\ df = << >> /\ history = << >>

C11_Witness == op = "exit" /\ argv = << >> /\ args.status = 2

-----------------------------------------------------------------------------
(* Claims about failing documents, checked under SpecBudget.               *)

\* The files the budget that ran last has scanned.
BudgetScanned == filenames(listing, args.exclude)

\* A file is read without an error and its type is in PdfTypes: every page
\* is A4 portrait, or every page is a slide.
ReadsFine(content) ==
    /\ content.readable
    /\ content.pages # << >>
    /\ \A i \in DOMAIN content.pages :
          content.pages[i] = content.pages[1] /\ content.pages[i].b < 842

\* The document built from path is the unreadable one: no page, no size,
\* type unknown, in the list of errors.
RecoveredAt(path) ==
    \E i \in DOMAIN pdfs :
        /\ pdfs[i].filepath = path
        /\ pdfs[i].pages = 0
        /\ pdfs[i].height = Unreadable /\ pdfs[i].width = Unreadable
        /\ TypeOf(pdfs[i]) = "unknown"
        /\ \E j \in DOMAIN errors : errors[j] = pdfs[i]

\* A budget has run over a tree with an unreadable file, each other scanned
\* file being read without an error.
OnlyUnreadableFails ==
    /\ op = "budget"
    /\ \E i \in DOMAIN BudgetScanned : ~files[BudgetScanned[i]].readable
    /\ \A i \in DOMAIN BudgetScanned :
          files[BudgetScanned[i]].readable => ReadsFine(files[BudgetScanned[i]])

\* C12: a file that cannot be read does not make its constructor raise: its
\* document has pages = 0 and height = width = -1, is of type unknown and in
\* the errors, and every other scanned file still has its document.
C12_UnreadableRecovered ==
    OnlyUnreadableFails =>
        /\ outcome = "returned"
        /\ Len(pdfs) = Len(BudgetScanned)
        /\ \A i \in DOMAIN BudgetScanned :
              /\ pdfs[i].filepath = BudgetScanned[i]
              /\ ~files[BudgetScanned[i]].readable => RecoveredAt(BudgetScanned[i])

\* The pages of a file are not all of the same height and width in cm.
MixedPages(content) ==
    /\ content.readable
    /\ \E i, j \in DOMAIN content.pages :
          \/ CmOf(content.pages[i].a) # CmOf(content.pages[j].a)
          \/ CmOf(content.pages[i].b) # CmOf(content.pages[j].b)

\* A budget has run over a tree with a file of mixed pages, each other
\* scanned file being read without an error.
OnlyMixedFails ==
    /\ op = "budget"
    /\ \E i \in DOMAIN BudgetScanned : MixedPages(files[BudgetScanned[i]])
    /\ \A i \in DOMAIN BudgetScanned :
          MixedPages(files[BudgetScanned[i]]) \/ ReadsFine(files[BudgetScanned[i]])

\* C13: a document whose pages differ in height or width is an error of that
\* document only: the scan still builds every document, the operation
\* returns, and the document is in its errors like an unreadable one.
C13_MixedPagesRecovered ==
    OnlyMixedFails =>
        /\ outcome = "returned"
        /\ Len(pdfs) = Len(BudgetScanned)
        /\ \A i \in DOMAIN BudgetScanned :
              /\ pdfs[i].filepath = BudgetScanned[i]
              /\ MixedPages(files[BudgetScanned[i]]) =>
                    /\ TypeOf(pdfs[i]) = "unknown"
                    /\ \E j \in DOMAIN errors : errors[j] = pdfs[i]

-----------------------------------------------------------------------------
(* Claims about a scan after concat, checked under Spec.                   *)

\* A path other than the output of the concat that ran.
NotTheOutput(path) == path # output

\* C14: a budget that returns after a concat has scanned every file of the
\* file list but the output of that concat, whatever the output was named.
C14_OutputNeverScanned ==
    (op = "budget" /\ history # << >> /\ outcome = "returned") =>
        [ i \in DOMAIN pdfs |-> pdfs[i].filepath ]
            = SelectSeq(get_file_list(listing, args.exclude), NotTheOutput)

-----------------------------------------------------------------------------
(* Claims about the three ranges, checked under SpecType.                  *)

\* C15: at most one of is_A4, is_A4_inverted and is_slide is true of a
\* (height, width), and the one that is true fixes what get_type does, so
\* the order of the three tests does not matter.
C15_AtMostOneRange ==
    /\ Cardinality({ r \in {"A4", "A4_inverted", "slide"} :
                       \/ r = "A4" /\ is_A4(height, width)
                       \/ r = "A4_inverted" /\ is_A4_inverted(height, width)
                       \/ r = "slide" /\ is_slide(height, width) }) <= 1
    /\ typeResult # "none" =>
          /\ is_A4(height, width) => typeResult = PdfTypesAttr("A4")
          /\ is_A4_inverted(height, width) => typeResult = PdfTypesAttr("A4_invertedç")
          /\ is_slide(height, width) => typeResult = PdfTypesAttr("slide")

C15_Witness == typeResult = "slide" /\ height = 20 /\ width = 26

====
